---- MODULE Spec2Model ----
(***************************************************************************)
(* Model of src/src/graph_etl.py: the GraphETLPipeline class, whose        *)
(* methods each run one Cypher statement against a Neo4j database in an    *)
(* auto-commit transaction, and main(), which calls them in sequence.      *)
(*                                                                         *)
(* The database is modelled by the nodes, relationships and properties the *)
(* statements read or write.  A Cypher statement is modelled by the rows   *)
(* its MATCH clauses produce, grouped and counted as WITH ... count(...)   *)
(* groups and counts them: count(x) counts rows, not distinct values.      *)
(***************************************************************************)
EXTENDS Integers, FiniteSets, Sequences, Bags, TLC

\* ------------------------------------------------------------------ bounds
\* Largest order id a caller uses; orders are numbered 1, 2, ... as in main.
MaxOrders == 4
\* Largest number of records in one load_orders batch.
MaxBatch == 2
\* Largest number of stored edges of one kind (derivations stop adding there).
MaxEdges == 2
\* Number of orders main generates (200 in the source, scaled down).
MainOrders == 3

\* ------------------------------------------------------- program constants
SimilarityMin == 2
CoPurchaseMin == 2
VipAbove == 5000
PremiumAbove == 2000

\* ------------------------------------------------------------ input values
CustomerIds == {1, 2}
ProductIds == {1, 2}
OneProduct == {1}
\* A property value is a set: empty when the property is absent (null), else
\* holding the value.
NULL == {}
Some(x) == {x}
The(v) == CHOOSE x \in v : TRUE
Present(S) == {Some(x) : x \in S}
\* total_amount values: enough to reach the sums 2000, 3000, 5000 and 6000.
Amounts == {2000, 3000}
OneAmount == {3000}
OneDate == {1}
AnalyticsNames == {"pagerank", "community_detection", "centrality"}

VARIABLES
    constraints,   \* the four uniqueness constraints exist
    customers,     \* ids of the :Customer nodes
    products,      \* ids of the :Product nodes
    categorized,   \* ids of the products with a BELONGS_TO relationship
    orders,        \* the :Order nodes with their PLACED and CONTAINS relationships
    similar,       \* bag of SIMILAR_TO relationships
    coPurchased,   \* bag of CO_PURCHASED relationships
    metrics,       \* customer id -> the properties calculate_customer_metrics sets
    projection,    \* the GDS graph 'customer-similarity' exists
    analytics,     \* names of the analytics whose property has been written
    raised,        \* the exception the last call raised to its caller, or "none"
    pc,            \* main: the statement main is at
    closed,        \* main: number of driver.close() calls on this pipeline
    failing,       \* main: an exception is propagating out of the try block
    prior          \* main: the derived state in the graph when the run started

graph == <<customers, products, categorized, orders, similar, coPurchased, metrics>>
gds == <<projection, analytics>>
mainVars == <<pc, closed, failing, prior>>
vars == <<constraints, graph, gds, raised, mainVars>>

NoMetrics == [total_orders |-> NULL, total_spent |-> NULL, avg_order_value |-> NULL,
              last_order_date |-> NULL, customer_tier |-> NULL]
Unset == [c \in CustomerIds |-> NoMetrics]
Derived == [similar |-> similar, coPurchased |-> coPurchased, metrics |-> metrics]

\* ------------------------------------------------------------------ store
\* clear_database: MATCH (n) DETACH DELETE n.  Constraints and the in-memory
\* GDS projection are not nodes and stay.
ClearDatabase ==
    /\ customers' = {}
    /\ products' = {}
    /\ categorized' = {}
    /\ orders' = {}
    /\ similar' = EmptyBag
    /\ coPurchased' = EmptyBag
    /\ metrics' = Unset
    /\ analytics' = {}
    /\ raised' = "none"
    /\ UNCHANGED <<constraints, projection>>

\* create_constraints: each CREATE CONSTRAINT ... IF NOT EXISTS is tried and a
\* failure is only logged, so the call returns normally either way.
CreateConstraints ==
    /\ constraints' \in {TRUE, constraints}
    /\ raised' = "none"
    /\ UNCHANGED <<graph, gds>>

\* load_customers: UNWIND $customers ... CREATE (c:Customer {id: ...}).  With
\* the constraint in place an id already stored fails the whole statement.
\* Nodes are modelled by their ids, so batches that would store an id twice
\* while no constraint exists are left out of the inputs.
LoadCustomers(batch) ==
    /\ constraints \/ batch \cap customers = {}
    /\ IF batch \cap customers # {}
       THEN /\ raised' = "ConstraintError"
            /\ UNCHANGED customers
       ELSE /\ raised' = "none"
            /\ customers' = customers \cup batch
    /\ UNCHANGED <<constraints, products, categorized, orders, similar,
                   coPurchased, metrics, gds>>

\* load_products: CREATE the products, then in a second statement
\* MATCH (p:Product) MERGE (c:Category ...) MERGE (p)-[:BELONGS_TO]->(c).
LoadProducts(batch) ==
    /\ constraints \/ batch \cap products = {}
    /\ IF batch \cap products # {}
       THEN /\ raised' = "ConstraintError"
            /\ UNCHANGED <<products, categorized>>
       ELSE /\ raised' = "none"
            /\ products' = products \cup batch
            /\ categorized' = products'
    /\ UNCHANGED <<constraints, customers, orders, similar, coPurchased,
                   metrics, gds>>

\* The records a caller may put in a load_orders batch.
OrderRecords(ids, prods, amounts, dates) ==
    [id : ids, customer_id : CustomerIds, product_id : prods,
     total_amount : amounts, order_date : Present(dates)]

OrderIdsOf(S) == {o.id : o \in S}

NextOrderId == IF orders = {} THEN 1
               ELSE 1 + CHOOSE i \in OrderIdsOf(orders) :
                            \A j \in OrderIdsOf(orders) : j <= i

\* Batches number their records consecutively, as main does.
OrderBatches(n, prods, amounts, dates) ==
    {b \in [1..n -> OrderRecords(NextOrderId..(NextOrderId + n - 1), prods, amounts, dates)] :
        \A i \in 1..n : b[i].id = NextOrderId + i - 1}

\* The rows of load_orders that pass both MATCH clauses: a row whose customer
\* or product is not in the graph produces nothing.
MatchedOrders(batch) ==
    {batch[i] : i \in {j \in DOMAIN batch :
                         /\ batch[j].customer_id \in customers
                         /\ batch[j].product_id \in products}}

\* load_orders: UNWIND $orders, MATCH the customer, MATCH the product, CREATE
\* the order with its PLACED and CONTAINS relationships.
LoadOrders(batch) ==
    /\ raised' = "none"
    /\ orders' = orders \cup MatchedOrders(batch)
    /\ UNCHANGED <<constraints, customers, products, categorized, similar,
                   coPurchased, metrics, gds>>

\* ------------------------------------------------------------- derivation
\* Rows of MATCH (c:Customer)-[:PLACED]->(o:Order)-[:CONTAINS]->(p:Product).
PlacedContains ==
    {[c |-> o.customer_id, o |-> o.id, p |-> o.product_id] : o \in orders}

\* Rows of the two MATCH clauses of the similarity statement, for one (c1, c2).
SimilarityRows(c1, c2) ==
    {r \in PlacedContains \X PlacedContains :
        r[1].c = c1 /\ r[2].c = c2 /\ r[1].p = r[2].p}

\* Variant of SimilarityPair that only excludes self-pairs (WHERE c1.id <> c2.id);
\* C4 must fail with it.
SimilarityPairUnordered(c1, c2) == c1 # c2

\* WHERE c1.id < c2.id
SimilarityPair(c1, c2) == c1 < c2

\* WITH c1, c2, count(p) AS common_products WHERE common_products >= 2
SimilarToEdges ==
    {[from |-> c1, to |-> c2, strength |-> Cardinality(SimilarityRows(c1, c2))] :
        <<c1, c2>> \in {q \in customers \X customers :
            /\ SimilarityPair(q[1], q[2])
            /\ Cardinality(SimilarityRows(q[1], q[2])) >= SimilarityMin}}

\* create_customer_similarity_relationships: CREATE one SIMILAR_TO per group.
CreateCustomerSimilarityRelationships ==
    /\ BagCardinality(similar) + Cardinality(SimilarToEdges) <= MaxEdges
    /\ similar' = similar (+) SetToBag(SimilarToEdges)
    /\ raised' = "none"
    /\ UNCHANGED <<constraints, customers, products, categorized, orders,
                   coPurchased, metrics, gds>>

\* Rows of the two MATCH clauses of the co-purchase statement, for one (p1, p2).
CoPurchaseRows(p1, p2) ==
    {r \in PlacedContains \X PlacedContains :
        r[1].p = p1 /\ r[2].p = p2 /\ r[1].c = r[2].c}

\* WHERE p1.id < p2.id
CoPurchasePair(p1, p2) == p1 < p2

\* WITH p1, p2, count(c) AS co_purchases WHERE co_purchases >= 2
CoPurchasedEdges ==
    {[from |-> p1, to |-> p2, frequency |-> Cardinality(CoPurchaseRows(p1, p2))] :
        <<p1, p2>> \in {q \in products \X products :
            /\ CoPurchasePair(q[1], q[2])
            /\ Cardinality(CoPurchaseRows(q[1], q[2])) >= CoPurchaseMin}}

\* create_product_co_purchase_relationships: CREATE one CO_PURCHASED per group.
CreateProductCoPurchaseRelationships ==
    /\ BagCardinality(coPurchased) + Cardinality(CoPurchasedEdges) <= MaxEdges
    /\ coPurchased' = coPurchased (+) SetToBag(CoPurchasedEdges)
    /\ raised' = "none"
    /\ UNCHANGED <<constraints, customers, products, categorized, orders,
                   similar, metrics, gds>>

\* ---------------------------------------------------------------- metrics
\* Rows of MATCH (c:Customer)-[:PLACED]->(o:Order) for one customer.
PlacedOrders(c) == {o \in orders : o.customer_id = c}

\* Cypher's sum() and avg() skip null values.
WithAmount(S) == {o \in S : o.total_amount # NULL}

RECURSIVE SumAmounts(_)
SumAmounts(S) ==
    IF S = {} THEN 0
    ELSE LET o == CHOOSE x \in S : TRUE
         IN The(o.total_amount) + SumAmounts(S \ {o})

\* sum(o.total_amount)
CypherSum(S) == SumAmounts(WithAmount(S))

\* avg(o.total_amount), kept as the fraction sum / n; null over no values.
CypherAvg(S) ==
    IF WithAmount(S) = {} THEN NULL
    ELSE Some([sum |-> SumAmounts(WithAmount(S)), n |-> Cardinality(WithAmount(S))])

\* max(o.order_date)
CypherMaxDate(S) ==
    CHOOSE d \in {The(o.order_date) : o \in S} : \A o \in S : The(o.order_date) <= d

\* Variant of CustomerTier with inclusive thresholds (>=); C6 must fail with it.
CustomerTierInclusive(total_spent) ==
    IF total_spent >= VipAbove THEN "VIP"
    ELSE IF total_spent >= PremiumAbove THEN "Premium"
    ELSE "Standard"

\* CASE WHEN total_spent > 5000 THEN 'VIP' WHEN total_spent > 2000 THEN
\* 'Premium' ELSE 'Standard' END
CustomerTier(total_spent) ==
    IF total_spent > VipAbove THEN "VIP"
    ELSE IF total_spent > PremiumAbove THEN "Premium"
    ELSE "Standard"

\* The SET clause, for one group of the WITH clause.
MetricsOf(c) ==
    [total_orders |-> Some(Cardinality(PlacedOrders(c))),
     total_spent |-> Some(CypherSum(PlacedOrders(c))),
     avg_order_value |-> CypherAvg(PlacedOrders(c)),
     last_order_date |-> Some(CypherMaxDate(PlacedOrders(c))),
     customer_tier |-> Some(CustomerTier(CypherSum(PlacedOrders(c))))]

\* The customers the MATCH of calculate_customer_metrics produces a row for.
CustomersWithOrders == {c \in customers : PlacedOrders(c) # {}}

\* calculate_customer_metrics: only customers with a PLACED order are matched,
\* so only their properties are set.
CalculateCustomerMetrics ==
    /\ metrics' = [c \in CustomerIds |->
                      IF c \in CustomersWithOrders THEN MetricsOf(c) ELSE metrics[c]]
    /\ raised' = "none"
    /\ UNCHANGED <<constraints, customers, products, categorized, orders,
                   similar, coPurchased, gds>>

\* -------------------------------------------------------------- analytics
\* run_graph_analytics: gds.graph.project, then the three write procedures.
\* A failure of the projection (the graph name already exists, for one) skips
\* the procedures; a failure of a procedure skips that one.  All are logged only.
RunGraphAnalytics ==
    /\ \/ UNCHANGED <<projection, analytics>>
       \/ /\ ~projection
          /\ projection' = TRUE
          /\ \E done \in SUBSET AnalyticsNames : analytics' = analytics \cup done
    /\ raised' = "none"
    /\ UNCHANGED <<constraints, graph>>

\* ------------------------------------------------------------------- main
Steps == <<"clear_database", "create_constraints", "load_customers",
           "load_products", "load_orders",
           "create_customer_similarity_relationships",
           "create_product_co_purchase_relationships",
           "calculate_customer_metrics", "run_graph_analytics">>

StepNames == {Steps[i] : i \in DOMAIN Steps}

\* The statement after step s of the try block; "close" is the finally clause.
After(s) ==
    LET i == CHOOSE j \in DOMAIN Steps : Steps[j] = s
    IN IF i = Len(Steps) THEN "close" ELSE Steps[i + 1]

\* Variant of OnException for a try block without the finally clause: the
\* exception leaves main at once.  C10 must fail with it.
OnExceptionNoFinally == "done"

\* Where an exception raised in the try block goes: the finally clause.
OnException == "close"

\* A call of the try block returned or raised: go on, or leave for finally.
Continue(s) ==
    /\ pc' = IF raised' = "none" THEN After(s) ELSE OnException
    /\ failing' = (raised' # "none")
    /\ UNCHANGED <<closed, prior>>

MainClearDatabase ==
    pc = "clear_database" /\ ClearDatabase /\ Continue("clear_database")

MainCreateConstraints ==
    pc = "create_constraints" /\ CreateConstraints /\ Continue("create_constraints")

\* customers_df holds every customer id, products_df every product id.
MainLoadCustomers ==
    pc = "load_customers" /\ LoadCustomers(CustomerIds) /\ Continue("load_customers")

MainLoadProducts ==
    pc = "load_products" /\ LoadProducts(ProductIds) /\ Continue("load_products")

\* orders_data: ids 1..n, customer_id and product_id drawn at random among the
\* loaded ids, total_amount a random number (never missing).  Of the draws that
\* differ only in which id got which record, the one with the records in
\* (customer_id, product_id) order is taken: no statement reads an order id.
OrdersData ==
    {b \in OrderBatches(MainOrders, ProductIds, Present(OneAmount), OneDate) :
        \A i, j \in 1..MainOrders : i < j =>
            \/ b[i].customer_id < b[j].customer_id
            \/ /\ b[i].customer_id = b[j].customer_id
               /\ b[i].product_id <= b[j].product_id}

MainLoadOrders ==
    /\ pc = "load_orders"
    /\ \E batch \in OrdersData : LoadOrders(batch)
    /\ Continue("load_orders")

MainCreateCustomerSimilarityRelationships ==
    /\ pc = "create_customer_similarity_relationships"
    /\ CreateCustomerSimilarityRelationships
    /\ Continue("create_customer_similarity_relationships")

MainCreateProductCoPurchaseRelationships ==
    /\ pc = "create_product_co_purchase_relationships"
    /\ CreateProductCoPurchaseRelationships
    /\ Continue("create_product_co_purchase_relationships")

MainCalculateCustomerMetrics ==
    /\ pc = "calculate_customer_metrics"
    /\ CalculateCustomerMetrics
    /\ Continue("calculate_customer_metrics")

MainRunGraphAnalytics ==
    pc = "run_graph_analytics" /\ RunGraphAnalytics /\ Continue("run_graph_analytics")

\* Any call may raise (the session cannot be opened, the statement fails); the
\* statement's auto-commit transaction then leaves the database as it was.
MainStepRaises ==
    /\ pc \in StepNames
    /\ raised' = "Error"
    /\ failing' = TRUE
    /\ pc' = OnException
    /\ UNCHANGED <<constraints, graph, gds, closed, prior>>

\* load_products raising at its second statement: the products are stored.
MainLoadProductsRaisesAtCategories ==
    /\ pc = "load_products"
    /\ products' = products \cup ProductIds
    /\ raised' = "Error"
    /\ failing' = TRUE
    /\ pc' = OnException
    /\ UNCHANGED <<constraints, customers, categorized, orders, similar,
                   coPurchased, metrics, gds, closed, prior>>

\* finally: pipeline.close()
MainClose ==
    /\ pc = "close"
    /\ closed' = closed + 1
    /\ pc' = "done"
    /\ UNCHANGED <<constraints, graph, gds, raised, failing, prior>>

\* The program is started again: a new pipeline against the same database.
MainStart ==
    /\ pc = "done"
    /\ pc' = "clear_database"
    /\ closed' = 0
    /\ failing' = FALSE
    /\ raised' = "none"
    /\ prior' = Derived
    /\ UNCHANGED <<constraints, graph, gds>>

\* ---------------------------------------------------------- specifications
Init ==
    /\ constraints = FALSE
    /\ customers = {}
    /\ products = {}
    /\ categorized = {}
    /\ orders = {}
    /\ similar = EmptyBag
    /\ coPurchased = EmptyBag
    /\ metrics = Unset
    /\ projection = FALSE
    /\ analytics = {}
    /\ raised = "none"
    /\ pc = "clear_database"
    /\ closed = 0
    /\ failing = FALSE
    /\ prior = [similar |-> EmptyBag, coPurchased |-> EmptyBag, metrics |-> Unset]

NonEmpty(S) == SUBSET S \ {{}}

BatchSizes == {n \in 1..MaxBatch : NextOrderId + n - 1 <= MaxOrders}

\* The store and the two derivations, called in any order.
Next ==
    \/ ClearDatabase /\ UNCHANGED mainVars
    \/ CreateConstraints /\ UNCHANGED mainVars
    \/ \E batch \in NonEmpty(CustomerIds) : LoadCustomers(batch) /\ UNCHANGED mainVars
    \/ \E batch \in NonEmpty(ProductIds) : LoadProducts(batch) /\ UNCHANGED mainVars
    \/ \E n \in BatchSizes : \E batch \in OrderBatches(n, ProductIds, Present(OneAmount), OneDate) :
           LoadOrders(batch) /\ UNCHANGED mainVars
    \/ CreateCustomerSimilarityRelationships /\ UNCHANGED mainVars
    \/ CreateProductCoPurchaseRelationships /\ UNCHANGED mainVars

Spec == Init /\ [][Next]_vars

\* The store and the metrics, called in any order; amounts may be missing.
MetricsNext ==
    \/ ClearDatabase /\ UNCHANGED mainVars
    \/ LoadCustomers(CustomerIds) /\ UNCHANGED mainVars
    \/ LoadProducts(OneProduct) /\ UNCHANGED mainVars
    \/ \E n \in BatchSizes : \E batch \in OrderBatches(n, OneProduct, Present(Amounts) \cup {NULL}, OneDate) :
           LoadOrders(batch) /\ UNCHANGED mainVars
    \/ CalculateCustomerMetrics /\ UNCHANGED mainVars

MetricsSpec == Init /\ [][MetricsNext]_vars

\* One run of main, from its first statement to the end of its finally clause.
MainRun ==
    \/ MainClearDatabase
    \/ MainCreateConstraints
    \/ MainLoadCustomers
    \/ MainLoadProducts
    \/ MainLoadOrders
    \/ MainCreateCustomerSimilarityRelationships
    \/ MainCreateProductCoPurchaseRelationships
    \/ MainCalculateCustomerMetrics
    \/ MainRunGraphAnalytics
    \/ MainStepRaises
    \/ MainLoadProductsRaisesAtCategories
    \/ MainClose

MainNext == MainRun \/ MainStart

\* A started run keeps executing: main is sequential and every call returns
\* or raises.
MainSpec == Init /\ [][MainNext]_vars /\ WF_vars(MainRun)

\* ------------------------------------------------------------------ claims
\* The products both customers have ordered, and the customers who ordered both
\* products, as sets (so distinct).
SharedProducts(c1, c2) ==
    {p \in products : /\ \E o \in orders : o.customer_id = c1 /\ o.product_id = p
                      /\ \E o \in orders : o.customer_id = c2 /\ o.product_id = p}

CommonCustomers(p1, p2) ==
    {c \in customers : /\ \E o \in orders : o.customer_id = c /\ o.product_id = p1
                       /\ \E o \in orders : o.customer_id = c /\ o.product_id = p2}

\* The edges one call added.
NewSimilar == BagToSet(similar' (-) similar)
NewCoPurchased == BagToSet(coPurchased' (-) coPurchased)

\* C1: with the edges of a first derivation stored and the store unchanged, a
\* second call of either derivation leaves the stored edges as they were.
C1_Idempotent ==
    [][/\ (similar = SetToBag(SimilarToEdges) /\ CreateCustomerSimilarityRelationships)
           => similar' = similar
       /\ (coPurchased = SetToBag(CoPurchasedEdges) /\ CreateProductCoPurchaseRelationships)
           => coPurchased' = coPurchased]_vars

\* C2: a call of create_customer_similarity_relationships adds an edge for a
\* pair of customers iff they share at least 2 distinct products, and its
\* strength is the number of distinct products they share.
C2_SimilarityByDistinctProducts ==
    [][CreateCustomerSimilarityRelationships =>
        \A c1, c2 \in customers : c1 < c2 =>
            LET added == {e \in NewSimilar : e.from = c1 /\ e.to = c2}
            IN /\ added # {} <=> Cardinality(SharedProducts(c1, c2)) >= 2
               /\ \A e \in added : e.strength = Cardinality(SharedProducts(c1, c2))]_vars

\* C3: a call of create_product_co_purchase_relationships adds an edge for a
\* pair of products iff at least 2 distinct customers ordered both, and its
\* frequency is the number of distinct customers who ordered both.
C3_CoPurchaseByDistinctCustomers ==
    [][CreateProductCoPurchaseRelationships =>
        \A p1, p2 \in products : p1 < p2 =>
            LET added == {e \in NewCoPurchased : e.from = p1 /\ e.to = p2}
            IN /\ added # {} <=> Cardinality(CommonCustomers(p1, p2)) >= 2
               /\ \A e \in added : e.frequency = Cardinality(CommonCustomers(p1, p2))]_vars

\* C4: every stored SIMILAR_TO and CO_PURCHASED edge goes from the lower id to
\* the higher id, so there is no self-edge and no edge has its reverse stored.
C4_CanonicalEdges ==
    /\ \A e \in BagToSet(similar) :
          /\ e.from < e.to
          /\ \A f \in BagToSet(similar) : ~(f.from = e.to /\ f.to = e.from)
    /\ \A e \in BagToSet(coPurchased) :
          /\ e.from < e.to
          /\ \A f \in BagToSet(coPurchased) : ~(f.from = e.to /\ f.to = e.from)

C4_Witness ==
    /\ BagToSet(similar) # {}
    /\ BagToSet(coPurchased) # {}
    /\ \E e \in BagToSet(similar) : CopiesIn(e, similar) = 2

\* C5: after calculate_customer_metrics every loaded customer without orders
\* has total_orders 0, no avg_order_value, no last_order_date and tier Standard.
C5_ZeroOrderCustomers ==
    [][CalculateCustomerMetrics =>
        \A c \in customers : PlacedOrders(c) = {} =>
            /\ metrics'[c].total_orders = Some(0)
            /\ metrics'[c].avg_order_value = NULL
            /\ metrics'[c].last_order_date = NULL
            /\ metrics'[c].customer_tier = Some("Standard")]_vars

\* The sum of the amounts of a set of orders, value by value.
RECURSIVE SumByValue(_, _)
SumByValue(S, values) ==
    IF values = {} THEN 0
    ELSE LET a == CHOOSE x \in values : TRUE
         IN a * Cardinality({o \in S : o.total_amount = Some(a)})
              + SumByValue(S, values \ {a})

\* C6: after calculate_customer_metrics every customer with an order has
\* total_orders the number of their orders, total_spent the sum of their
\* amounts, and tier VIP iff total_spent > 5000, Premium iff it is in
\* (2000, 5000], Standard otherwise.
C6_MetricsOfCustomersWithOrders ==
    [][CalculateCustomerMetrics =>
        \A c \in customers : PlacedOrders(c) # {} =>
            LET spent == SumByValue(PlacedOrders(c), Amounts)
                tier == metrics'[c].customer_tier
            IN /\ metrics'[c].total_orders = Some(Cardinality(PlacedOrders(c)))
               /\ metrics'[c].total_spent = Some(spent)
               /\ tier = Some("VIP") <=> spent > 5000
               /\ tier = Some("Premium") <=> (2000 < spent /\ spent <= 5000)
               /\ tier = Some("Standard") <=> spent <= 2000]_vars

C6_Witness ==
    \E c1, c2 \in CustomersWithOrders :
        /\ metrics[c1] = MetricsOf(c1)
        /\ metrics[c1].total_spent = Some(5000)
        /\ metrics[c1].customer_tier = Some("Premium")
        /\ metrics[c2] = MetricsOf(c2)
        /\ metrics[c2].total_spent = Some(2000)
        /\ metrics[c2].customer_tier = Some("Standard")

\* C7: a run of main that failed leaves the derived edges and metrics in the
\* graph exactly as they were when the run started.
C7_AllOrNothing == (pc = "done" /\ failing) => Derived = prior

\* C8: a load_orders batch holding an order whose customer or product is not
\* in the store raises an error and stores no order of the batch.
C8_DanglingReferenceRejected ==
    [][\A n \in BatchSizes :
         \A batch \in OrderBatches(n, ProductIds, Present(OneAmount), OneDate) :
            (LoadOrders(batch) /\ MatchedOrders(batch) # {batch[i] : i \in 1..n})
                => (raised' # "none" /\ orders' = orders)]_vars

\* C9: calculate_customer_metrics reports an error for a customer who has an
\* order without total_amount, and assigns that customer no metrics.
C9_MissingAmountIsFatal ==
    [][CalculateCustomerMetrics =>
        \A c \in customers : (\E o \in PlacedOrders(c) : o.total_amount = NULL) =>
            (raised' # "none" /\ metrics'[c] = metrics[c])]_vars

\* C10: a started run of main reaches its end with the connection closed
\* exactly once, whether or not a step raised, and nothing runs after close.
C10_ClosedOnEveryPath ==
    /\ [](closed <= 1)
    /\ [](pc = "done" <=> closed = 1)
    /\ [][pc = "done" => UNCHANGED <<constraints, graph, gds>>]_vars
    /\ (pc # "done") ~> (pc = "done")

C10_Witness ==
    /\ pc = "done"
    /\ closed = 1
    /\ failing
    /\ similar # EmptyBag

====
